---- MODULE Spec2Model ----
(***************************************************************************)
(* Model of Neo4jGraphCreator (Knowledge_Graphs/graph_creator.py): the     *)
(* entity and relationship operations, CSV ingestion, static seeding, the  *)
(* rule table of create_smart_relationships, and the orchestrator main().  *)
(*                                                                         *)
(* The Neo4j server is a map from database name to a property graph.  A    *)
(* graph is a set of nodes (each with a store-assigned internal id) and a  *)
(* bag of edges, since CREATE never deduplicates.  Texts are sequences of  *)
(* lower- or upper-case words; the Cypher regular expressions are matched  *)
(* word by word.  Serialized vectors are sequences of the tokens           *)
(* "[", "]", ",", "1", "2" and are parsed by literal_eval.                 *)
(*                                                                         *)
(* Spec has a client calling the entity and relationship methods,          *)
(* ClassSpec a client calling every public method of the class, MainSpec   *)
(* the program main(), run once or several times on the same server.       *)
(***************************************************************************)
EXTENDS Integers, Sequences, FiniteSets, TLC

\* ------------------------------------------------------------- bounds
MaxCalls == 3    \* calls a client makes on one creator object (Spec)
MaxFaults == 1   \* store errors the server raises in one behaviour
MaxRows == 2     \* rows of the CSV file
MaxRuns == 2     \* consecutive executions of main() (MainSpec)

VARIABLES
    database,               \* self.database: NEO4J_DATABASE, or None
    csv,                    \* the file ../Dados/user_stories_embeddings.csv
    driver,                 \* self.driver: "none" | "open" | "closed"
    connected,              \* what the last connect() returned
    store,                  \* the server: database name -> graph
    before,                 \* the server as it was when the last call, or this
                            \* run of main(), began
    err,                    \* exception the last call raised, or "none"
    lastOp,                 \* the last method called, with its identifiers
    calls,                  \* number of calls made by the client
    faults,                 \* store errors raised so far
    pc,                     \* position of main()
    run,                    \* which execution of main() this is
    trace,                  \* methods main() has invoked in this run
    requirements_created,   \* populate_from_csv's counter
    relationships_created,  \* create_smart_relationships's counter
    rulesAttempted,         \* rules whose statement was sent to the store
    results                 \* what each finished run left behind

vars == <<database, csv, driver, connected, store, before, err, lastOp, calls, faults,
          pc, run, trace, requirements_created, relationships_created,
          rulesAttempted, results>>

\* ------------------------------------------------------ configuration
None == "None"
HomeDb == "neo4j"                 \* the database a session opens when none is named
Databases == {HomeDb, "reqs"}
DatabaseSettings == {None, "reqs"}

\* driver.session(database=d): None selects the server's default database
SessionDb(d) == IF d = None THEN HomeDb ELSE d

DefaultEmbeddingModel == "text-embedding-3-small"

\* ------------------------------------------------------------- graphs
NoEdges == [k \in {} |-> 0]
EmptyGraph == [nodes |-> {}, edges |-> NoEdges]

EdgeKinds == {"USES_TECHNIQUE", "REFERS_TO", "IS_RELATED_TO", "APPLIES_TO",
              "SUGGESTS_TECHNIQUE", "SUPPORTED_BY", "IS_A", "FOLLOWS", "ELICITED_BY"}

Copies(E, k) == IF k \in DOMAIN E THEN E[k] ELSE 0

\* bag union: CREATE adds edges and never merges with existing ones
AddEdges(E, F) == [k \in DOMAIN E \cup DOMAIN F |-> Copies(E, k) + Copies(F, k)]

RECURSIVE SumCopies(_, _)
SumCopies(E, K) ==
    IF K = {} THEN 0
    ELSE LET k == CHOOSE x \in K : TRUE
         IN Copies(E, k) + SumCopies(E, K \ {k})

EdgeCount(g, kind) == SumCopies(g.edges, {k \in DOMAIN g.edges : k.kind = kind})
TotalEdges(g) == SumCopies(g.edges, DOMAIN g.edges)

NodeIds(g) == {n.nid : n \in g.nodes}
NodeById(g, i) == CHOOSE n \in g.nodes : n.nid = i
NodesOf(g, label) == {n \in g.nodes : n.label = label}
Keys(g, label) == {n.key : n \in NodesOf(g, label)}

\* the internal id the store gives the next node: the smallest one not in use
FreshId(g) == CHOOSE i \in 0..Cardinality(g.nodes) :
                  /\ i \notin NodeIds(g)
                  /\ \A j \in 0..(i - 1) : j \in NodeIds(g)

\* `embedding or []`: an argument is <<>> when not given (None), else <<vector>>
OrEmpty(embedding) == IF embedding = <<>> THEN <<>> ELSE embedding[1]

\* ------------------------------------------------- entity creation
Labels == {"Requirement", "Technique", "Instruction", "Concept"}

\* the property that carries each kind's business identifier
IdProperty(label) ==
    CASE label = "Requirement" -> "req_id"
      [] label = "Technique"   -> "tech_id"
      [] label = "Instruction" -> "instr_id"
      [] label = "Concept"     -> "concept_id"

\* mutant of CreateNode: MERGE on the identifier instead of CREATE
MergeNode(g, label, key, text, embedding, embedding_model) ==
    IF \E n \in g.nodes : n.label = label /\ n.key = key
    THEN g
    ELSE [g EXCEPT !.nodes = @ \cup {[nid |-> FreshId(g), label |-> label, key |-> key,
                                      text |-> text, embedding |-> OrEmpty(embedding),
                                      embedding_model |-> embedding_model]}]

\* mutant of CreateNode: the node that carries the identifier is overwritten
ReplaceNode(g, label, key, text, embedding, embedding_model) ==
    [g EXCEPT !.nodes = {n \in @ : ~(n.label = label /\ n.key = key)}
                           \cup {[nid |-> FreshId(g), label |-> label, key |-> key,
                                  text |-> text, embedding |-> OrEmpty(embedding),
                                  embedding_model |-> embedding_model]}]

\* CREATE (n:Label {...}): always a new node; `text` is the node's text
\* attribute (text of a Requirement or Instruction, name of the others).
\* (h ranges over {g} so that the graph is evaluated once: TLC evaluates an
\* operator's arguments by name inside ENABLED.)
CreateNode(g, label, key, text, embedding, embedding_model) ==
    CHOOSE after \in
        {[h EXCEPT !.nodes = @ \cup {[nid |-> FreshId(h), label |-> label, key |-> key,
                                      text |-> text, embedding |-> OrEmpty(embedding),
                                      embedding_model |-> embedding_model]}] : h \in {g}} :
        TRUE

\* return result.single()[0]: None[0] raises when the statement returned no
\* record; CREATE ... RETURN returns one record for the node it created
SingleFails(records) == records = 0

\* ------------------------------------------------------ relationships
\* mutant of MatchNodes: the identifier is left out of the pattern
MatchNodesOfLabel(g, label, prop, value) == NodesOf(g, label)

\* MATCH (n:Label {prop: value})
MatchNodes(g, label, prop, value) ==
    {n \in NodesOf(g, label) : prop = IdProperty(label) /\ n.key = value}

\* one edge per row of the match: MATCH (a ...) MATCH (b ...) CREATE (a)-[:KIND]->(b)
EdgesBetween(sources, targets, kind) ==
    [k \in {[kind |-> kind, src |-> a.nid, dst |-> b.nid] : a \in sources, b \in targets}
        |-> 1]

CreateRelationship(g, srcLabel, srcKey, dstLabel, dstKey, kind) ==
    [g EXCEPT !.edges =
        AddEdges(@, EdgesBetween(MatchNodes(g, srcLabel, IdProperty(srcLabel), srcKey),
                                 MatchNodes(g, dstLabel, IdProperty(dstLabel), dstKey),
                                 kind))]

\* session.run(query, {...}) of a relationship method: the result is not read,
\* so a match that yields no row raises nothing
RelationshipRaises(g, srcLabel, srcKey, dstLabel, dstKey) == FALSE

\* the six explicit relationship methods: source kind, target kind, edge kind
RelationshipMethods ==
    [create_uses_technique_relationship |->
        [src |-> "Requirement", dst |-> "Technique", kind |-> "USES_TECHNIQUE"],
     create_refers_to_relationship |->
        [src |-> "Instruction", dst |-> "Concept", kind |-> "REFERS_TO"],
     create_is_related_to_relationship |->
        [src |-> "Requirement", dst |-> "Concept", kind |-> "IS_RELATED_TO"],
     create_applies_to_relationship |->
        [src |-> "Technique", dst |-> "Concept", kind |-> "APPLIES_TO"],
     create_suggests_technique_relationship |->
        [src |-> "Instruction", dst |-> "Technique", kind |-> "SUGGESTS_TECHNIQUE"],
     create_supported_by_relationship |->
        [src |-> "Requirement", dst |-> "Instruction", kind |-> "SUPPORTED_BY"]]

\* mutant of DetachDelete: only the Requirement nodes are deleted
DetachDeleteRequirements(g, victims) ==
    LET gone == {n.nid : n \in {v \in victims : v.label = "Requirement"}}
        kept == {k \in DOMAIN g.edges : k.src \notin gone /\ k.dst \notin gone}
    IN [nodes |-> {n \in g.nodes : n.nid \notin gone},
        edges |-> [k \in kept |-> g.edges[k]]]

\* mutant of DetachDelete: DELETE without DETACH semantics, the edges stay
DeleteNodesOnly(g, victims) == [g EXCEPT !.nodes = @ \ victims]

\* DETACH DELETE of the nodes in `victims`: the nodes and every edge at them go
DetachDelete(g, victims) ==
    LET gone == {n.nid : n \in victims}
        kept == {k \in DOMAIN g.edges : k.src \notin gone /\ k.dst \notin gone}
    IN [nodes |-> g.nodes \ victims, edges |-> [k \in kept |-> g.edges[k]]]

\* ------------------------------------------------------ text patterns
\* (?i): case-insensitive comparison of words
Lower(w) ==
    CASE w = "Sistema" -> "sistema"
      [] w = "DEVE"    -> "deve"
      [] OTHER         -> w

LowerText(t) == [i \in DOMAIN t |-> Lower(t[i])]

\* `.` matches any character except a line terminator
NoLineBreak(t) == \A i \in DOMAIN t : t[i] # "\n"

StartsWith(t, p) == Len(t) >= Len(p) /\ SubSeq(t, 1, Len(p)) = p
Contains(t, p) == \E i \in 1..(Len(t) - Len(p) + 1) : SubSeq(t, i, i + Len(p) - 1) = p

\* r.text =~ '(?i).*A.*|B.*|C.*': =~ matches the whole text, so the first
\* alternative is "contains A" and the others are "starts with"
Matches(text, containsAny, startsWithAny) ==
    /\ NoLineBreak(text)
    /\ \/ \E p \in containsAny : Contains(LowerText(text), p)
       \/ \E p \in startsWithAny : StartsWith(LowerText(text), p)

\* '(?i).*sistema deve.*|deve permitir.*|deve ter.*|deve fazer.*'
IsFunctionalText(text) ==
    Matches(text, {<<"sistema", "deve">>},
            {<<"deve", "permitir">>, <<"deve", "ter">>, <<"deve", "fazer">>})

\* '(?i).*desempenho.*|segurança.*|usabilidade.*|disponibilidade.*|manutenibilidade.*'
IsNonFunctionalText(text) ==
    Matches(text, {<<"desempenho">>},
            {<<"seguranca">>, <<"usabilidade">>, <<"disponibilidade">>,
             <<"manutenibilidade">>})

\* '(?i).*segurança.*|criptografar.*|autenticar.*|autorizar.*'
IsSecurityText(text) ==
    Matches(text, {<<"seguranca">>},
            {<<"criptografar">>, <<"autenticar">>, <<"autorizar">>})

\* ------------------------------------------------- vector parsing
Digits == {"1", "2"}
Num(d) == IF d = "1" THEN 1 ELSE 2

\* the strings ast.literal_eval accepts as a list of numbers:
\* "[" number ("," number)* [","] "]" or "[]"
Inner(s) == SubSeq(s, 2, Len(s) - 1)
IsListLiteral(s) ==
    /\ Len(s) >= 2
    /\ s[1] = "[" /\ s[Len(s)] = "]"
    /\ \A i \in 1..Len(Inner(s)) :
          IF i % 2 = 1 THEN Inner(s)[i] \in Digits ELSE Inner(s)[i] = ","

\* the list literal_eval returns for an accepted string
literal_eval(s) == [i \in 1..((Len(Inner(s)) + 1) \div 2) |-> Num(Inner(s)[2 * i - 1])]

\* f"REQ_{row_num:04d}"
Pad4(n) ==
    IF n < 10 THEN "000" \o ToString(n)
    ELSE IF n < 100 THEN "00" \o ToString(n)
    ELSE IF n < 1000 THEN "0" \o ToString(n)
    ELSE ToString(n)
\* mutant of ReqId: the row number is left out of the identifier
ReqIdOfNoRow(row_num) == "REQ_" \o Pad4(0)

ReqId(row_num) == "REQ_" \o Pad4(row_num)

\* ------------------------------------------------------ static nodes
\* the tables of create_static_nodes, in creation order
StaticNodes ==
    << [label |-> "Technique", key |-> "TECH_001", text |-> <<"Entrevista">>],
       [label |-> "Technique", key |-> "TECH_002", text |-> <<"Questionario">>],
       [label |-> "Technique", key |-> "TECH_003", text |-> <<"Casos", "de", "Uso">>],
       [label |-> "Technique", key |-> "TECH_004", text |-> <<"Prototipos">>],
       [label |-> "Technique", key |-> "TECH_005", text |-> <<"Analise", "de", "Dominio">>],
       [label |-> "Instruction", key |-> "INST_001", text |-> <<"Priorize", "requisitos">>],
       [label |-> "Instruction", key |-> "INST_002", text |-> <<"Valide", "sempre">>],
       [label |-> "Instruction", key |-> "INST_003", text |-> <<"Mantenha", "rastreabilidade">>],
       [label |-> "Instruction", key |-> "INST_004", text |-> <<"Use", "linguagem", "clara">>],
       [label |-> "Instruction", key |-> "INST_005", text |-> <<"Considere", "restricoes">>],
       [label |-> "Concept", key |-> "CONC_001", text |-> <<"Requisito", "Funcional">>],
       [label |-> "Concept", key |-> "CONC_002", text |-> <<"Requisito", "Nao-Funcional">>],
       [label |-> "Concept", key |-> "CONC_003", text |-> <<"Stakeholder">>],
       [label |-> "Concept", key |-> "CONC_004", text |-> <<"Elicitacao", "de", "Requisitos">>],
       [label |-> "Concept", key |-> "CONC_005", text |-> <<"Validacao", "de", "Requisitos">>] >>

\* the three loops of create_static_nodes, stopped by a store error after
\* `done` nodes (done = Len(StaticNodes): no error)
RECURSIVE CreateStaticNodes(_, _)
CreateStaticNodes(g, done) ==
    IF done = 0 THEN g
    ELSE LET s == StaticNodes[done]
         IN CreateNode(CreateStaticNodes(g, done - 1), s.label, s.key, s.text,
                       <<>>, DefaultEmbeddingModel)

\* ------------------------------------------------------ CSV ingestion
\* the file is [exists, rows]; os.path.exists(csv_path) is `exists`
NoFile == [exists |-> FALSE, rows |-> <<>>]

\* row.get('embedding', '[]'): a row is [user_story, embedding], the embedding
\* field being <<>> when the file has no such column and <<string>> otherwise
EmbeddingStr(row) == IF row.embedding = <<>> THEN <<"[", "]">> ELSE row.embedding[1]

\* literal_eval raises on this row
ParseFails(row) == EmbeddingStr(row) # <<>> /\ ~IsListLiteral(EmbeddingStr(row))

\* ast.literal_eval(embedding_str) if embedding_str else []
ParsedEmbedding(row) ==
    IF EmbeddingStr(row) = <<>> THEN <<>> ELSE literal_eval(EmbeddingStr(row))

\* the rows for which create_requirement is called
RowsCreated(rows) == {i \in 1..Len(rows) : ~ParseFails(rows[i])}

\* the loop of populate_from_csv from row `row_num` on; the store raises in
\* create_requirement for the rows in `failing`; any exception skips the row
RECURSIVE IngestRows(_, _, _, _)
IngestRows(g, rows, row_num, failing) ==
    IF row_num > Len(rows) THEN g
    ELSE IF ParseFails(rows[row_num]) \/ row_num \in failing
         THEN IngestRows(g, rows, row_num + 1, failing)
         ELSE IngestRows(CreateNode(g, "Requirement", ReqId(row_num),
                                    rows[row_num].user_story,
                                    <<ParsedEmbedding(rows[row_num])>>,
                                    DefaultEmbeddingModel),
                         rows, row_num + 1, failing)

\* populate_from_csv: nothing when the file does not exist
PopulateFromCsv(g, file, failing) ==
    IF ~file.exists THEN g ELSE IngestRows(g, file.rows, 1, failing)

RequirementsCreated(file, failing) ==
    IF ~file.exists THEN 0 ELSE Cardinality(RowsCreated(file.rows) \ failing)

\* ---------------------------------------------------- inference rules
WhereText(pattern, t) ==
    CASE pattern = "functional" -> IsFunctionalText(t)
      [] pattern = "non-functional" -> IsNonFunctionalText(t)
      [] pattern = "security" -> IsSecurityText(t)
      [] OTHER -> TRUE
\* mutant of RequirementsWhere: only requirements that carry a vector qualify
RequirementsWhereEmbedded(g, pattern) ==
    {r \in NodesOf(g, "Requirement") : WhereText(pattern, r.text) /\ r.embedding # <<>>}

RequirementsWhere(g, pattern) ==
    {r \in NodesOf(g, "Requirement") : WhereText(pattern, r.text)}

\* rule 4: MATCH (r:Requirement)-[:IS_A]->(:Concept {concept_id: "CONC_001"})
\* yields one row per IS_A edge, each joined with every TECH_001 node
FunctionalPaths(g, r) ==
    SumCopies(g.edges, {[kind |-> "IS_A", src |-> r.nid, dst |-> c.nid] :
                            c \in MatchNodes(g, "Concept", "concept_id", "CONC_001")})

EdgesOfRule4(g) ==
    LET sources == {r \in NodesOf(g, "Requirement") : FunctionalPaths(g, r) > 0}
        targets == MatchNodes(g, "Technique", "tech_id", "TECH_001")
    IN [k \in {[kind |-> "USES_TECHNIQUE", src |-> r.nid, dst |-> t.nid] :
                   r \in sources, t \in targets}
            |-> FunctionalPaths(g, NodeById(g, k.src))]

\* the edges the i-th statement of create_smart_relationships creates
EdgesOfRule(g, i) ==
    CASE i = 1 -> EdgesBetween(RequirementsWhere(g, "functional"),
                               MatchNodes(g, "Concept", "concept_id", "CONC_001"), "IS_A")
      [] i = 2 -> EdgesBetween(RequirementsWhere(g, "non-functional"),
                               MatchNodes(g, "Concept", "concept_id", "CONC_002"), "IS_A")
      [] i = 3 -> EdgesBetween(RequirementsWhere(g, "security"),
                               MatchNodes(g, "Technique", "tech_id", "TECH_005"),
                               "USES_TECHNIQUE")
      [] i = 4 -> EdgesOfRule4(g)
      [] i = 5 -> EdgesBetween(MatchNodes(g, "Instruction", "instr_id", "INST_002"),
                               MatchNodes(g, "Concept", "concept_id", "CONC_005"),
                               "APPLIES_TO")
      [] i = 6 -> EdgesBetween(MatchNodes(g, "Instruction", "instr_id", "INST_003"),
                               MatchNodes(g, "Concept", "concept_id", "CONC_004"),
                               "APPLIES_TO")
      [] i = 7 -> EdgesBetween(NodesOf(g, "Technique"),
                               MatchNodes(g, "Instruction", "instr_id", "INST_002"),
                               "FOLLOWS")
      [] i = 8 -> EdgesBetween(RequirementsWhere(g, "any"),
                               MatchNodes(g, "Instruction", "instr_id", "INST_001"),
                               "SUPPORTED_BY")
      [] i = 9 -> EdgesBetween(RequirementsWhere(g, "any"),
                               MatchNodes(g, "Instruction", "instr_id", "INST_004"),
                               "SUPPORTED_BY")

ApplyRule(g, i) ==
    CHOOSE after \in
        {[h EXCEPT !.edges = CHOOSE sum \in {AddEdges(h.edges, F) : F \in {EdgesOfRule(h, i)}} :
                                 TRUE] : h \in {g}} :
        TRUE

\* the statements of create_smart_relationships in the order the method runs them
RuleTable == <<1, 2, 3, 4, 5, 6, 7, 8, 9>>

\* the first `n` statements of `table`, one after the other
RECURSIVE RunRules(_, _, _)
RunRules(g, table, n) ==
    IF n = 0 THEN g ELSE ApplyRule(RunRules(g, table, n - 1), table[n])

\* ------------------------------------------------------------ inputs
FunctionalStory == <<"O", "Sistema", "deve", "permitir", "login">>
SecurityStory == <<"seguranca", "de", "dados">>
PrefixStory == <<"deve", "permitir", "login">>
PlainStory == <<"como", "usuario", "quero", "login">>
TwoLineStory == <<"o", "sistema", "deve", "\n", "permitir">>
LoginStory == <<"O", "sistema", "deve", "permitir", "login">>

\* rows of the CSV file: no vector column, a vector, a truncated vector, an
\* empty vector field, and the login story with no vector column
Rows ==
    << [user_story |-> FunctionalStory, embedding |-> <<>>],
       [user_story |-> SecurityStory, embedding |-> << <<"[", "1", ",", "2", "]">> >>],
       [user_story |-> PrefixStory, embedding |-> << <<"[", "1">> >>],
       [user_story |-> PlainStory, embedding |-> << <<>> >>],
       [user_story |-> LoginStory, embedding |-> <<>>] >>

\* the files: no file, and the files of up to MaxRows rows that run through
\* Rows from any of its rows on
RowAt(first, i) == Rows[((first + i - 2) % Len(Rows)) + 1]
Files ==
    {NoFile} \cup
    {[exists |-> TRUE, rows |-> [i \in 1..n |-> RowAt(first, i)]] :
        n \in 0..MaxRows, first \in DOMAIN Rows}

\* identifiers and attributes a client passes to the methods
KeyArgs(label) ==
    CASE label = "Requirement" -> {"REQ_0001", "REQ_0002"}
      [] label = "Technique"   -> {"TECH_001", "TECH_009"}
      [] label = "Instruction" -> {"INST_001", "INST_009"}
      [] label = "Concept"     -> {"CONC_001", "CONC_009"}
TextArgs == {FunctionalStory, TwoLineStory}
EmbeddingArgs == {<<>>, << <<1, 2>> >>}

\* what a run of populate_complete_graph without a preceding reset leaves in a
\* database: a graph that already holds REQ_0001 twice, the static nodes and
\* the inferred edges
LeftOver ==
    LET file == [exists |-> TRUE,
                 rows |-> <<[user_story |-> FunctionalStory, embedding |-> <<>>]>>]
        once == PopulateFromCsv(EmptyGraph, file, {})
        twice == PopulateFromCsv(once, file, {})
    IN RunRules(CreateStaticNodes(twice, Len(StaticNodes)), RuleTable, Len(RuleTable))

PriorStores == {[d \in Databases |-> EmptyGraph], [d \in Databases |-> LeftOver]}

\* --------------------------------------------------------------- calls
\* a call of a method that opens one session on the configured database and
\* runs one statement, which takes the graph to `after`; `raises` tells
\* whether the method's handling of the result raises
RunStatement(name, a, b, after, raises) ==
    /\ calls < MaxCalls
    /\ calls' = calls + 1
    /\ lastOp' = [name |-> name, a |-> a, b |-> b]
    /\ before' = store
    /\ \/ /\ driver = "none"          \* self.driver.session: None has no attribute
          /\ err' = "AttributeError"
          /\ UNCHANGED <<store, faults>>
       \/ /\ driver # "none"          \* session.run raises
          /\ faults < MaxFaults
          /\ faults' = faults + 1
          /\ err' = "StoreError"
          /\ UNCHANGED store
       \/ /\ driver # "none"
          /\ err' = IF raises THEN "TypeError" ELSE "none"
          /\ store' = [store EXCEPT ![SessionDb(database)] = after]
          /\ UNCHANGED faults
    /\ UNCHANGED <<database, csv, driver, connected, pc, run, trace,
                   requirements_created, relationships_created, rulesAttempted,
                   results>>

Graph == store[SessionDb(database)]

\* connect(): the driver constructor may raise (self.driver keeps its value);
\* the test query may raise (self.driver is set all the same)
Connect ==
    \/ /\ connected' = FALSE
       /\ UNCHANGED <<driver, faults>>
    \/ /\ faults < MaxFaults
       /\ faults' = faults + 1
       /\ driver' = "open"
       /\ connected' = FALSE
    \/ /\ driver' = "open"
       /\ connected' = TRUE
       /\ UNCHANGED faults

connect ==
    /\ calls < MaxCalls
    /\ calls' = calls + 1
    /\ Connect
    /\ lastOp' = [name |-> "connect", a |-> "", b |-> ""]
    /\ before' = store
    /\ err' = "none"
    /\ UNCHANGED <<database, csv, store, pc, run, trace, requirements_created,
                   relationships_created, rulesAttempted, results>>

clear_database ==
    RunStatement("clear_database", "", "", DetachDelete(Graph, Graph.nodes), FALSE)

create_requirement ==
    \E req_id \in KeyArgs("Requirement"), text \in TextArgs, embedding \in EmbeddingArgs :
        RunStatement("create_requirement", req_id, "",
                     CreateNode(Graph, "Requirement", req_id, text, embedding,
                                DefaultEmbeddingModel),
                     SingleFails(1))

create_technique ==
    \E tech_id \in KeyArgs("Technique"), embedding \in EmbeddingArgs :
        RunStatement("create_technique", tech_id, "",
                     CreateNode(Graph, "Technique", tech_id, <<"Entrevista">>, embedding,
                                DefaultEmbeddingModel),
                     SingleFails(1))

create_instruction ==
    \E instr_id \in KeyArgs("Instruction"), embedding \in EmbeddingArgs :
        RunStatement("create_instruction", instr_id, "",
                     CreateNode(Graph, "Instruction", instr_id, <<"Valide", "sempre">>,
                                embedding, DefaultEmbeddingModel),
                     SingleFails(1))

create_concept ==
    \E concept_id \in KeyArgs("Concept"), embedding \in EmbeddingArgs :
        RunStatement("create_concept", concept_id, "",
                     CreateNode(Graph, "Concept", concept_id, <<"Requisito", "Funcional">>,
                                embedding, DefaultEmbeddingModel),
                     SingleFails(1))

\* the body shared by the six create_*_relationship methods
RelationshipCall(method) ==
    LET m == RelationshipMethods[method]
    IN \E srcKey \in KeyArgs(m.src), dstKey \in KeyArgs(m.dst) :
           RunStatement(method, srcKey, dstKey,
                        CreateRelationship(Graph, m.src, srcKey, m.dst, dstKey, m.kind),
                        RelationshipRaises(Graph, m.src, srcKey, m.dst, dstKey))

create_uses_technique_relationship ==
    RelationshipCall("create_uses_technique_relationship")
create_refers_to_relationship ==
    RelationshipCall("create_refers_to_relationship")
create_is_related_to_relationship ==
    RelationshipCall("create_is_related_to_relationship")
create_applies_to_relationship ==
    RelationshipCall("create_applies_to_relationship")
create_suggests_technique_relationship ==
    RelationshipCall("create_suggests_technique_relationship")
create_supported_by_relationship ==
    RelationshipCall("create_supported_by_relationship")

\* ------------------------------------------------- composite methods
\* where the store raises in a sequence of n statements, as the number of
\* statements that succeeded before: at the first, in the middle, at the last
FailurePoints(n) == {0, n \div 2, n - 1}

\* create_smart_relationships: `with self.driver.session() as session` names
\* no database; one try block holds all the statements, so the first one
\* that raises ends the method
SmartRelationships(table) ==
    \/ /\ faults < MaxFaults
       /\ faults' = faults + 1
       /\ \E done \in FailurePoints(Len(table)) :
             /\ store' = [store EXCEPT ![SessionDb(None)] = RunRules(@, table, done)]
             /\ relationships_created' = done
             /\ rulesAttempted' = SubSeq(table, 1, done + 1)
    \/ /\ store' = [store EXCEPT ![SessionDb(None)] = RunRules(@, table, Len(table))]
       /\ relationships_created' = Len(table)
       /\ rulesAttempted' = table
       /\ UNCHANGED faults

\* the texts of the three requirements of populate_sample_data
SampleRequirements ==
    << [key |-> "REQ_001",
        text |-> <<"O", "sistema", "deve", "permitir", "login", "de", "usuarios">>],
       [key |-> "REQ_002",
        text |-> <<"O", "sistema", "deve", "ser", "responsivo">>],
       [key |-> "REQ_003",
        text |-> <<"O", "sistema", "deve", "criptografar", "dados">>] >>

\* the requirement loop of populate_sample_data, stopped after `done` nodes
RECURSIVE CreateSampleRequirements(_, _)
CreateSampleRequirements(g, done) ==
    IF done = 0 THEN g
    ELSE LET s == SampleRequirements[done]
         IN CreateNode(CreateSampleRequirements(g, done - 1), "Requirement", s.key, s.text,
                       <<>>, DefaultEmbeddingModel)

\* the statements of create_relationships_sample, in order:
\* MATCH (a:Src {srcProp: srcKey}), (b:Dst {dstProp: dstKey}) CREATE (a)-[:KIND]->(b)
SampleTable ==
    << [src |-> "Requirement", srcProp |-> "req_id", srcKey |-> "REQ_001",
        dst |-> "Technique", dstProp |-> "tech_id", dstKey |-> "TECH_001",
        kind |-> "ELICITED_BY"],
       [src |-> "Requirement", srcProp |-> "req_id", srcKey |-> "REQ_002",
        dst |-> "Technique", dstProp |-> "tech_id", dstKey |-> "TECH_002",
        kind |-> "ELICITED_BY"],
       [src |-> "Requirement", srcProp |-> "req_id", srcKey |-> "REQ_001",
        dst |-> "Concept", dstProp |-> "concept_id", dstKey |-> "CONC_001",
        kind |-> "IS_A"],
       [src |-> "Requirement", srcProp |-> "req_id", srcKey |-> "REQ_002",
        dst |-> "Concept", dstProp |-> "concept_id", dstKey |-> "CONC_002",
        kind |-> "IS_A"],
       [src |-> "Requirement", srcProp |-> "req_id", srcKey |-> "REQ_003",
        dst |-> "Concept", dstProp |-> "concept_id", dstKey |-> "CONC_002",
        kind |-> "IS_A"],
       [src |-> "Technique", srcProp |-> "tech_id", srcKey |-> "TECH_001",
        dst |-> "Instruction", dstProp |-> "inst_id", dstKey |-> "INST_002",
        kind |-> "FOLLOWS"],
       [src |-> "Technique", srcProp |-> "tech_id", srcKey |-> "TECH_003",
        dst |-> "Instruction", dstProp |-> "inst_id", dstKey |-> "INST_003",
        kind |-> "FOLLOWS"],
       [src |-> "Instruction", srcProp |-> "inst_id", srcKey |-> "INST_001",
        dst |-> "Concept", dstProp |-> "concept_id", dstKey |-> "CONC_003",
        kind |-> "APPLIES_TO"] >>

\* the edges the n-th statement of create_relationships_sample creates
EdgesOfSample(g, n) ==
    LET s == SampleTable[n]
    IN EdgesBetween(MatchNodes(g, s.src, s.srcProp, s.srcKey),
                    MatchNodes(g, s.dst, s.dstProp, s.dstKey), s.kind)

\* the first `n` statements of create_relationships_sample, one after the other
RECURSIVE RunSample(_, _)
RunSample(g, n) ==
    IF n = 0 THEN g
    ELSE CHOOSE after \in
             {[h EXCEPT !.edges = AddEdges(h.edges, EdgesOfSample(h, n))] :
                 h \in {RunSample(g, n - 1)}} :
             TRUE

\* what every call of a composite method does to the client's bookkeeping
ClientCall(name) ==
    /\ calls < MaxCalls
    /\ calls' = calls + 1
    /\ lastOp' = [name |-> name, a |-> "", b |-> ""]
    /\ before' = store
    /\ UNCHANGED <<database, csv, driver, connected, pc, run, trace, results>>

\* populate_from_csv(): returns when the file is missing; every exception of
\* a row (also the AttributeError of a creator that never connected) is
\* caught and the row skipped
populate_from_csv ==
    /\ ClientCall("populate_from_csv")
    /\ err' = "none"
    /\ \/ /\ driver = "none"
          /\ requirements_created' = 0
          /\ UNCHANGED <<store, faults>>
       \/ /\ driver # "none"
          /\ \E failing \in SUBSET (IF csv.exists THEN RowsCreated(csv.rows) ELSE {}) :
                /\ faults + Cardinality(failing) <= MaxFaults
                /\ faults' = faults + Cardinality(failing)
                /\ store' = [store EXCEPT
                                ![SessionDb(database)] = PopulateFromCsv(@, csv, failing)]
                /\ requirements_created' = RequirementsCreated(csv, failing)
    /\ UNCHANGED <<relationships_created, rulesAttempted>>

\* create_static_nodes(): the first exception ends the method and propagates
create_static_nodes ==
    /\ ClientCall("create_static_nodes")
    /\ \/ /\ driver = "none"
          /\ err' = "AttributeError"
          /\ UNCHANGED <<store, faults>>
       \/ /\ driver # "none"
          /\ faults < MaxFaults
          /\ faults' = faults + 1
          /\ \E done \in FailurePoints(Len(StaticNodes)) :
                store' = [store EXCEPT ![SessionDb(database)] = CreateStaticNodes(@, done)]
          /\ err' = "StoreError"
       \/ /\ driver # "none"
          /\ store' = [store EXCEPT ![SessionDb(database)] =
                          CreateStaticNodes(@, Len(StaticNodes))]
          /\ err' = "none"
          /\ UNCHANGED faults
    /\ UNCHANGED <<requirements_created, relationships_created, rulesAttempted>>

\* create_smart_relationships(): every exception is caught, also that of
\* self.driver.session() on a creator that never connected
create_smart_relationships ==
    /\ ClientCall("create_smart_relationships")
    /\ err' = "none"
    /\ \/ /\ driver = "none"
          /\ relationships_created' = 0
          /\ rulesAttempted' = <<>>
          /\ UNCHANGED <<store, faults>>
       \/ /\ driver # "none"
          /\ SmartRelationships(RuleTable)
    /\ UNCHANGED requirements_created

\* populate_complete_graph(): populate_from_csv, create_static_nodes,
\* create_smart_relationships; an exception of create_static_nodes ends it.
\* `seeded` and `inferred` are the statements that ran before the store raised.
populate_complete_graph ==
    /\ ClientCall("populate_complete_graph")
    /\ \/ /\ driver = "none"
          /\ err' = "AttributeError"
          /\ requirements_created' = 0
          /\ UNCHANGED <<store, faults, relationships_created, rulesAttempted>>
       \/ /\ driver # "none"
          /\ \E failing \in SUBSET (IF csv.exists THEN RowsCreated(csv.rows) ELSE {}),
                seeded \in FailurePoints(Len(StaticNodes)) \cup {Len(StaticNodes)},
                inferred \in FailurePoints(Len(RuleTable)) \cup {Len(RuleTable)} :
                LET raised == seeded < Len(StaticNodes)
                    cut == ~raised /\ inferred < Len(RuleTable)
                    n == Cardinality(failing) + (IF raised THEN 1 ELSE 0)
                                              + (IF cut THEN 1 ELSE 0)
                    loaded == [store EXCEPT
                                  ![SessionDb(database)] = PopulateFromCsv(@, csv, failing)]
                    static == [loaded EXCEPT
                                  ![SessionDb(database)] = CreateStaticNodes(@, seeded)]
                    linked == [static EXCEPT
                                  ![SessionDb(None)] = RunRules(@, RuleTable, inferred)]
                IN /\ raised => inferred = Len(RuleTable)
                   /\ faults + n <= MaxFaults
                   /\ faults' = faults + n
                   /\ requirements_created' = RequirementsCreated(csv, failing)
                   /\ store' = IF raised THEN static ELSE linked
                   /\ err' = IF raised THEN "StoreError" ELSE "none"
                   /\ relationships_created' =
                         IF raised THEN relationships_created ELSE inferred
                   /\ rulesAttempted' =
                         IF raised THEN rulesAttempted
                         ELSE SubSeq(RuleTable, 1, IF cut THEN inferred + 1 ELSE inferred)

\* create_relationships_sample(): `with self.driver.session() as session`
\* names no database; one try block holds the eight statements
create_relationships_sample ==
    /\ ClientCall("create_relationships_sample")
    /\ err' = "none"
    /\ \/ /\ driver = "none"
          /\ relationships_created' = 0
          /\ rulesAttempted' = <<>>
          /\ UNCHANGED <<store, faults>>
       \/ /\ driver # "none"
          /\ faults < MaxFaults
          /\ faults' = faults + 1
          /\ \E done \in FailurePoints(Len(SampleTable)) :
                /\ store' = [store EXCEPT ![SessionDb(None)] = RunSample(@, done)]
                /\ relationships_created' = done
                /\ rulesAttempted' = [i \in 1..(done + 1) |-> i]
       \/ /\ driver # "none"
          /\ store' = [store EXCEPT ![SessionDb(None)] = RunSample(@, Len(SampleTable))]
          /\ relationships_created' = Len(SampleTable)
          /\ rulesAttempted' = [i \in 1..Len(SampleTable) |-> i]
          /\ UNCHANGED faults
    /\ UNCHANGED requirements_created

\* populate_sample_data(): the three requirements are created; the first
\* create_technique(**tech) is given the keyword `phase`, which the method
\* does not have, so a TypeError leaves the method before any other node and
\* before create_relationships_sample
populate_sample_data ==
    /\ ClientCall("populate_sample_data")
    /\ \/ /\ driver = "none"
          /\ err' = "AttributeError"
          /\ UNCHANGED <<store, faults>>
       \/ /\ driver # "none"
          /\ faults < MaxFaults
          /\ faults' = faults + 1
          /\ \E done \in FailurePoints(Len(SampleRequirements)) :
                store' = [store EXCEPT
                             ![SessionDb(database)] = CreateSampleRequirements(@, done)]
          /\ err' = "StoreError"
       \/ /\ driver # "none"
          /\ store' = [store EXCEPT ![SessionDb(database)] =
                          CreateSampleRequirements(@, Len(SampleRequirements))]
          /\ err' = "TypeError"
          /\ UNCHANGED faults
    /\ UNCHANGED <<requirements_created, relationships_created, rulesAttempted>>

\* the file a client of the class finds: none, or MaxRows rows of Rows
ClientFiles == {NoFile, [exists |-> TRUE, rows |-> [i \in 1..MaxRows |-> RowAt(1, i)]]}

\* ------------------------------------------- Spec: calls of a client
Init ==
    /\ database \in DatabaseSettings
    /\ csv = NoFile
    /\ driver = "none"
    /\ connected = FALSE
    /\ store \in PriorStores
    /\ before = store
    /\ err = "none"
    /\ lastOp = [name |-> "__init__", a |-> "", b |-> ""]
    /\ calls = 0
    /\ faults = 0
    /\ pc = "client"
    /\ run = 1
    /\ trace = <<>>
    /\ requirements_created = 0
    /\ relationships_created = 0
    /\ rulesAttempted = <<>>
    /\ results = <<>>

Next ==
    \/ connect
    \/ clear_database
    \/ create_requirement
    \/ create_technique
    \/ create_instruction
    \/ create_concept
    \/ create_uses_technique_relationship
    \/ create_refers_to_relationship
    \/ create_is_related_to_relationship
    \/ create_applies_to_relationship
    \/ create_suggests_technique_relationship
    \/ create_supported_by_relationship

Spec == Init /\ [][Next]_vars

\* ------------------- ClassSpec: calls of a client, every public method
ClassInit ==
    /\ database \in DatabaseSettings
    /\ csv \in ClientFiles
    /\ driver = "none"
    /\ connected = FALSE
    /\ store \in PriorStores
    /\ before = store
    /\ err = "none"
    /\ lastOp = [name |-> "__init__", a |-> "", b |-> ""]
    /\ calls = 0
    /\ faults = 0
    /\ pc = "client"
    /\ run = 1
    /\ trace = <<>>
    /\ requirements_created = 0
    /\ relationships_created = 0
    /\ rulesAttempted = <<>>
    /\ results = <<>>

ClassNext ==
    \/ connect
    \/ clear_database
    \/ create_requirement
    \/ create_technique
    \/ create_instruction
    \/ create_concept
    \/ create_uses_technique_relationship
    \/ create_refers_to_relationship
    \/ create_is_related_to_relationship
    \/ create_applies_to_relationship
    \/ create_suggests_technique_relationship
    \/ create_supported_by_relationship
    \/ populate_from_csv
    \/ create_static_nodes
    \/ create_smart_relationships
    \/ populate_complete_graph
    \/ create_relationships_sample
    \/ populate_sample_data

ClassSpec == ClassInit /\ [][ClassNext]_vars

\* ------------------------------------------------------------- main()
Invoked(method) == \E i \in DOMAIN trace : trace[i] = method

\* the run went through every stage and the store raised in none of them
RunComplete ==
    /\ Invoked("report")
    /\ relationships_created = Len(RuleTable)
    /\ requirements_created = RequirementsCreated(csv, {})

\* what is recorded of a finished run: whether it was complete and, if so, the
\* Requirement identifiers in the configured database and the edges of each
\* kind on the server and in the configured database
Outcome ==
    IF RunComplete
    THEN [req_ids |-> Keys(Graph, "Requirement"),
          edges |-> [k \in EdgeKinds |->
                        EdgeCount(store[HomeDb], k) + EdgeCount(store["reqs"], k)],
          own_edges |-> [k \in EdgeKinds |-> EdgeCount(Graph, k)],
          complete |-> TRUE]
    ELSE [req_ids |-> {}, edges |-> [k \in EdgeKinds |-> 0],
          own_edges |-> [k \in EdgeKinds |-> 0], complete |-> FALSE]

\* with Neo4jGraphCreator() as graph: __enter__ calls connect() and drops its result
MainEnter ==
    /\ pc = "Idle"
    /\ Connect
    /\ pc' = "entered"
    /\ trace' = Append(trace, "connect")
    /\ UNCHANGED <<database, csv, before, store, err, lastOp, calls, run,
                   requirements_created, relationships_created, rulesAttempted,
                   results>>

\* if not graph.driver: return
MainCheckDriver ==
    /\ pc = "entered"
    /\ pc' = IF driver = "none" THEN "exit" ELSE "clear_database"
    /\ UNCHANGED <<database, csv, before, driver, connected, store, err, lastOp, calls,
                   faults, run, trace, requirements_created, relationships_created,
                   rulesAttempted, results>>

\* graph.clear_database(): an exception leaves main() through __exit__
MainClear ==
    /\ pc = "clear_database"
    /\ trace' = Append(trace, "clear_database")
    /\ \/ /\ faults < MaxFaults
          /\ faults' = faults + 1
          /\ err' = "StoreError"
          /\ pc' = "exit"
          /\ UNCHANGED store
       \/ /\ store' = [store EXCEPT ![SessionDb(database)] = DetachDelete(@, @.nodes)]
          /\ pc' = "populate_from_csv"
          /\ UNCHANGED <<faults, err>>
    /\ UNCHANGED <<database, csv, before, driver, connected, lastOp, calls, run,
                   requirements_created, relationships_created, rulesAttempted,
                   results>>

\* populate_complete_graph, first call: populate_from_csv() catches every
\* exception of a row and goes on with the next row
MainPopulateFromCsv ==
    /\ pc = "populate_from_csv"
    /\ trace' = Append(trace, "populate_from_csv")
    /\ \E failing \in SUBSET (IF csv.exists THEN RowsCreated(csv.rows) ELSE {}) :
          /\ faults + Cardinality(failing) <= MaxFaults
          /\ faults' = faults + Cardinality(failing)
          /\ store' = [store EXCEPT ![SessionDb(database)] = PopulateFromCsv(@, csv, failing)]
          /\ requirements_created' = RequirementsCreated(csv, failing)
    /\ pc' = "create_static_nodes"
    /\ UNCHANGED <<database, csv, before, driver, connected, err, lastOp, calls, run,
                   relationships_created, rulesAttempted, results>>

\* populate_complete_graph, second call: create_static_nodes() catches nothing
MainCreateStaticNodes ==
    /\ pc = "create_static_nodes"
    /\ trace' = Append(trace, "create_static_nodes")
    /\ \/ /\ faults < MaxFaults
          /\ faults' = faults + 1
          /\ \E done \in FailurePoints(Len(StaticNodes)) :
                store' = [store EXCEPT ![SessionDb(database)] = CreateStaticNodes(@, done)]
          /\ err' = "StoreError"
          /\ pc' = "exit"
       \/ /\ store' = [store EXCEPT ![SessionDb(database)] =
                          CreateStaticNodes(@, Len(StaticNodes))]
          /\ pc' = "create_smart_relationships"
          /\ UNCHANGED <<faults, err>>
    /\ UNCHANGED <<database, csv, before, driver, connected, lastOp, calls, run,
                   requirements_created, relationships_created, rulesAttempted,
                   results>>

\* populate_complete_graph, third call
MainCreateSmartRelationships ==
    /\ pc = "create_smart_relationships"
    /\ trace' = Append(trace, "create_smart_relationships")
    /\ SmartRelationships(RuleTable)
    /\ pc' = "report"
    /\ UNCHANGED <<database, csv, before, driver, connected, err, lastOp, calls, run,
                   requirements_created, results>>

\* the statistics main() prints
MainReport ==
    /\ pc = "report"
    /\ trace' = Append(trace, "report")
    /\ pc' = "exit"
    /\ UNCHANGED <<database, csv, before, driver, connected, store, err, lastOp, calls,
                   faults, run, requirements_created, relationships_created,
                   rulesAttempted, results>>

\* mutant of Close: the driver is never closed
CloseNothing == UNCHANGED driver

\* close(): if self.driver: self.driver.close()
Close == driver' = IF driver = "none" THEN "none" ELSE "closed"

\* __exit__ calls close() on every way out of the with block
MainExit ==
    /\ pc = "exit"
    /\ Close
    /\ trace' = Append(trace, "close")
    /\ pc' = "Closed"
    /\ results' = Append(results, Outcome)
    /\ UNCHANGED <<database, csv, before, connected, store, err, lastOp, calls, faults, run,
                   requirements_created, relationships_created, rulesAttempted>>

\* the program is started again on the same file and configuration
MainAgain ==
    /\ pc = "Closed"
    /\ run < MaxRuns
    /\ run' = run + 1
    /\ pc' = "Idle"
    /\ driver' = "none"
    /\ connected' = FALSE
    /\ err' = "none"
    /\ trace' = <<>>
    /\ requirements_created' = 0
    /\ relationships_created' = 0
    /\ rulesAttempted' = <<>>
    /\ before' = store
    /\ UNCHANGED <<database, csv, store, lastOp, calls, faults, results>>

MainInit ==
    /\ database \in DatabaseSettings
    /\ csv \in Files
    /\ driver = "none"
    /\ connected = FALSE
    /\ store \in PriorStores
    /\ before = store
    /\ err = "none"
    /\ lastOp = [name |-> "main", a |-> "", b |-> ""]
    /\ calls = 0
    /\ faults = 0
    /\ pc = "Idle"
    /\ run = 1
    /\ trace = <<>>
    /\ requirements_created = 0
    /\ relationships_created = 0
    /\ rulesAttempted = <<>>
    /\ results = <<>>

MainNext ==
    \/ MainEnter
    \/ MainCheckDriver
    \/ MainClear
    \/ MainPopulateFromCsv
    \/ MainCreateStaticNodes
    \/ MainCreateSmartRelationships
    \/ MainReport
    \/ MainExit
    \/ MainAgain

MainSpec == MainInit /\ [][MainNext]_vars

\* main() is one sequential program: it takes its next step when it has one
FairMainSpec == MainSpec /\ WF_vars(MainNext)

\* ===================================================== properties
\* the last call reached the store and the store raised nothing
Serviced == calls > 0 /\ err \notin {"AttributeError", "StoreError"}

OtherDatabasesUntouched ==
    \A d \in Databases \ {SessionDb(database)} : store[d] = before[d]

\* C1: a call of one of the six create_*_relationship methods whose source or
\* target identifier matches no node of the required kind creates no edge,
\* raises nothing and leaves nodes and edges as they were; when both match,
\* one edge of the method's kind is added from each matched source to each
\* matched target, and nothing else changes.
C1_RelationshipSoftOnMissingEndpoint ==
    (lastOp.name \in DOMAIN RelationshipMethods /\ Serviced) =>
        LET m == RelationshipMethods[lastOp.name]
            old == before[SessionDb(database)]
            new == store[SessionDb(database)]
            S == {n.nid : n \in {x \in old.nodes : x.label = m.src /\ x.key = lastOp.a}}
            T == {n.nid : n \in {x \in old.nodes : x.label = m.dst /\ x.key = lastOp.b}}
            created(k) == IF k.kind = m.kind /\ k.src \in S /\ k.dst \in T THEN 1 ELSE 0
        IN /\ err = "none"
           /\ new.nodes = old.nodes
           /\ OtherDatabasesUntouched
           /\ (S = {} \/ T = {}) => store = before
           /\ \A a \in S, b \in T :
                 Copies(new.edges, [kind |-> m.kind, src |-> a, dst |-> b])
                    = Copies(old.edges, [kind |-> m.kind, src |-> a, dst |-> b]) + 1
           /\ \A k \in DOMAIN new.edges \cup DOMAIN old.edges :
                 Copies(new.edges, k) = Copies(old.edges, k) + created(k)

\* C1 witness: a relationship call was served whose source exists and whose
\* target identifier matches none of the nodes of the target kind
C1_Witness ==
    /\ lastOp.name \in DOMAIN RelationshipMethods
    /\ Serviced
    /\ LET m == RelationshipMethods[lastOp.name]
       IN /\ \E n \in NodesOf(Graph, m.src) : n.key = lastOp.a
          /\ NodesOf(Graph, m.dst) # {}
          /\ \A n \in NodesOf(Graph, m.dst) : n.key # lastOp.b
          /\ store = before

\* the four entity methods and the kind of node each creates
CreateMethods ==
    [create_requirement |-> "Requirement", create_technique |-> "Technique",
     create_instruction |-> "Instruction", create_concept |-> "Concept"]

\* C9: each served call of create_requirement, create_technique,
\* create_instruction or create_concept raises nothing and adds exactly one
\* node of its kind with the identifier given, whether or not a node with
\* that identifier exists; every node and edge that was there stays as it was.
C9_CreateAddsExactlyOneNode ==
    (lastOp.name \in DOMAIN CreateMethods /\ Serviced) =>
        LET label == CreateMethods[lastOp.name]
            old == before[SessionDb(database)]
            new == store[SessionDb(database)]
            added == new.nodes \ old.nodes
        IN /\ err = "none"
           /\ old.nodes \subseteq new.nodes
           /\ Cardinality(added) = 1
           /\ \A n \in added : n.label = label /\ n.key = lastOp.a /\ n.nid \notin NodeIds(old)
           /\ Cardinality(NodesOf(new, label)) = Cardinality(NodesOf(old, label)) + 1
           /\ new.edges = old.edges
           /\ OtherDatabasesUntouched

\* C9 witness: an entity was created under an identifier a node already had
C9_Witness ==
    /\ lastOp.name \in DOMAIN CreateMethods
    /\ Serviced
    /\ \E n \in before[SessionDb(database)].nodes :
          n.label = CreateMethods[lastOp.name] /\ n.key = lastOp.a
    /\ Cardinality({n \in Graph.nodes :
                       n.label = CreateMethods[lastOp.name] /\ n.key = lastOp.a}) >= 2

\* C10: a served clear_database raises nothing and leaves the configured
\* database with no node and no edge, whatever it held before (nothing
\* included); the other databases of the server are not touched.
C10_ClearLeavesEmptyGraph ==
    (lastOp.name = "clear_database" /\ Serviced) =>
        /\ err = "none"
        /\ Graph.nodes = {}
        /\ TotalEdges(Graph) = 0
        /\ DOMAIN Graph.edges = {}
        /\ OtherDatabasesUntouched

\* C10 witness: clear_database was served on a graph that held nodes and edges
C10_Witness ==
    /\ lastOp.name = "clear_database"
    /\ Serviced
    /\ before[SessionDb(database)].nodes # {}
    /\ TotalEdges(before[SessionDb(database)]) > 0
    /\ Graph = EmptyGraph

\* clear_database served on a graph that was already empty
C10_EmptyCase ==
    /\ lastOp.name = "clear_database"
    /\ Serviced
    /\ before[SessionDb(database)] = EmptyGraph

\* the Requirement nodes of g that have a USES_TECHNIQUE edge to a TECH_001 node
LinkedToInterview(g) ==
    {r \in NodesOf(g, "Requirement") :
        \E t \in NodesOf(g, "Technique") :
            /\ t.key = "TECH_001"
            /\ Copies(g.edges, [kind |-> "USES_TECHNIQUE", src |-> r.nid, dst |-> t.nid]) > 0}

\* C2: create_smart_relationships applies its statements once each, in the
\* order of the table, the IS_A classification (1) before the statement that
\* links classified requirements to TECH_001 (4); so after a complete run every
\* requirement of the populated graph whose text matches the functional
\* pattern has a USES_TECHNIQUE edge to TECH_001, while the two statements in
\* the reverse order on the same populated graph create no such edge.
C2_OrderedRulesLinkFunctionalRequirements ==
    /\ Invoked("create_smart_relationships") /\ faults = 0 => rulesAttempted = RuleTable
    /\ pc = "create_smart_relationships" =>
          LinkedToInterview(RunRules(Graph, <<4, 1>>, 2)) = {}
    /\ RunComplete =>
          \A r \in NodesOf(Graph, "Requirement") :
              IsFunctionalText(r.text) => r \in LinkedToInterview(Graph)

\* the statement of C2 when NEO4J_DATABASE is not set, so that every session
\* opens the same database
C2_WhenNoDatabaseIsNamed ==
    database = None => C2_OrderedRulesLinkFunctionalRequirements

\* C3: when the store raises while one statement of create_smart_relationships
\* runs, every later statement of the table is still sent to the store and
\* create_smart_relationships raises nothing.
C3_LaterRulesRunAfterRuleError ==
    Invoked("create_smart_relationships") =>
        /\ \A i \in DOMAIN RuleTable : \E j \in DOMAIN rulesAttempted :
              rulesAttempted[j] = RuleTable[i]
        /\ err = "none"

\* C4: populate_from_csv creates one Requirement node per row of the file; a
\* row whose vector field is empty or does not parse gets a node with an
\* empty embedding.
C4_EveryRowYieldsRequirement ==
    (pc = "create_static_nodes" /\ csv.exists
        /\ requirements_created = RequirementsCreated(csv, {})) =>
        /\ Cardinality(NodesOf(Graph, "Requirement")) = Len(csv.rows)
        /\ \A i \in DOMAIN csv.rows :
              (ParseFails(csv.rows[i]) \/ EmbeddingStr(csv.rows[i]) = <<>>) =>
                  \E n \in NodesOf(Graph, "Requirement") :
                      n.key = ReqId(i) /\ n.embedding = <<>>

\* C5: when connect() fails, main() goes to Closed without calling
\* clear_database, populate_from_csv, create_static_nodes or
\* create_smart_relationships, and the server is left as the run found it.
C5_FailedConnectGoesStraightToClosed ==
    (pc # "Idle" /\ ~connected) =>
        /\ ~Invoked("clear_database")
        /\ ~Invoked("populate_from_csv")
        /\ ~Invoked("create_static_nodes")
        /\ ~Invoked("create_smart_relationships")
        /\ store = before

\* C6: every execution of main() reaches Closed, with close() the last
\* method it invoked and the driver not left open, on success, on a failed
\* connection and when a stage raises; once Closed, that execution changes
\* nothing more on the server.
C6_MainAlwaysCloses ==
    /\ (pc # "Closed") ~> (pc = "Closed")
    /\ [](pc = "Closed" => (trace[Len(trace)] = "close" /\ driver # "open"))
    /\ [][pc = "Closed" => (store' = store /\ driver' # "open")]_vars

\* C6 witness: Closed was reached after create_static_nodes raised
C6_Witness ==
    pc = "Closed" /\ err = "StoreError" /\ Invoked("create_static_nodes")

\* the reset of this run has completed
Cleared == pc = "populate_from_csv" \/ Invoked("populate_from_csv")

\* C7: in a run of main() no entity is created before clear_database has
\* completed, and from then on no two nodes of the same kind in the
\* configured database carry the same identifier, whatever the file holds
\* and whatever the database held before.
C7_ClearedRunHasUniqueIdentifiers ==
    /\ \A i \in DOMAIN trace :
          trace[i] \in {"populate_from_csv", "create_static_nodes"} =>
              \E j \in 1..(i - 1) : trace[j] = "clear_database"
    /\ ~Cleared => store = before
    /\ Cleared =>
          \A n1, n2 \in Graph.nodes :
              (n1.label = n2.label /\ n1.key = n2.key) => n1 = n2

\* C7 witness: a run that found REQ_0001 twice in its database has loaded two
\* rows and seeded the static nodes
C7_Witness ==
    /\ Invoked("report")
    /\ before[SessionDb(database)] = LeftOver
    /\ Cardinality(NodesOf(Graph, "Requirement")) = 2
    /\ Cardinality(Graph.nodes) = 2 + Len(StaticNodes)

\* C8: two complete runs of main() on the same file, each with its reset,
\* leave the same set of Requirement identifiers and the same number of edges
\* of each kind.
C8_TwoRunsSameResult ==
    (Len(results) >= 2 /\ results[1].complete /\ results[2].complete) =>
        /\ results[1].req_ids = results[2].req_ids
        /\ results[1].edges = results[2].edges

\* the statement of C8 when NEO4J_DATABASE is not set
C8_WhenNoDatabaseIsNamed == database = None => C8_TwoRunsSameResult

\* the identifiers alone: REQ_ and the 1-based row number, the same in both runs
C8_SameIdentifiers ==
    (Len(results) >= 2 /\ results[1].complete /\ results[2].complete) =>
        /\ results[1].req_ids = results[2].req_ids
        /\ results[1].req_ids = {ReqId(i) : i \in RowsCreated(csv.rows)}

\* the position of a stage in this run's trace, 0 when it has not been invoked
StageAt(method) ==
    IF Invoked(method) THEN CHOOSE i \in DOMAIN trace : trace[i] = method ELSE 0

\* C11: a run of main() goes through connect, clear_database, static seeding,
\* requirement loading, inference, report and close in this order: the static
\* nodes are all there before the first Requirement node is created, and no
\* rule runs before both seeding and loading have completed.
C11_SeedingThenLoadingThenInference ==
    /\ Invoked("populate_from_csv") =>
          /\ Invoked("create_static_nodes")
          /\ StageAt("create_static_nodes") < StageAt("populate_from_csv")
    /\ (Cleared /\ NodesOf(Graph, "Requirement") # {}) =>
          \A i \in DOMAIN StaticNodes :
              StaticNodes[i].key \in Keys(Graph, StaticNodes[i].label)
    /\ Invoked("create_smart_relationships") =>
          /\ Invoked("create_static_nodes") /\ Invoked("populate_from_csv")
          /\ StageAt("create_static_nodes") < StageAt("create_smart_relationships")
          /\ StageAt("populate_from_csv") < StageAt("create_smart_relationships")

\* the order the code has: requirement loading first, static seeding second,
\* inference after both, then report and close
C11_StagesAsCoded ==
    pc = "Closed" /\ Invoked("report") =>
        trace = <<"connect", "clear_database", "populate_from_csv", "create_static_nodes",
                  "create_smart_relationships", "report", "close">>

\* the part of C11 about inference alone: no rule runs before seeding and
\* loading have both been invoked and have returned
C11_InferenceAfterSeedingAndLoading ==
    Invoked("create_smart_relationships") =>
        /\ 0 < StageAt("create_static_nodes")
        /\ StageAt("create_static_nodes") < StageAt("create_smart_relationships")
        /\ 0 < StageAt("populate_from_csv")
        /\ StageAt("populate_from_csv") < StageAt("create_smart_relationships")

\* the last call ran every statement of create_smart_relationships, by itself
\* or as the last step of populate_complete_graph, and no row or statement failed
InferenceDone ==
    /\ lastOp.name \in {"create_smart_relationships", "populate_complete_graph"}
    /\ err = "none"
    /\ relationships_created = Len(RuleTable)
    /\ rulesAttempted = RuleTable
    /\ lastOp.name = "populate_complete_graph" =>
          requirements_created = RequirementsCreated(csv, {})

\* the graph that call's statements were run on, as it was before the first
GraphAtInference ==
    IF lastOp.name = "populate_complete_graph" /\ SessionDb(database) = SessionDb(None)
    THEN CreateStaticNodes(PopulateFromCsv(before[SessionDb(None)], csv, {}),
                           Len(StaticNodes))
    ELSE before[SessionDb(None)]

\* the fixed identifiers the statements name as target, with the edge kind,
\* the kind of the sources and the condition on the source's text
FixedTargets ==
    {[kind |-> "IS_A", label |-> "Concept", key |-> "CONC_001",
      src |-> "Requirement", pattern |-> "functional"],
     [kind |-> "IS_A", label |-> "Concept", key |-> "CONC_002",
      src |-> "Requirement", pattern |-> "non-functional"],
     [kind |-> "USES_TECHNIQUE", label |-> "Technique", key |-> "TECH_005",
      src |-> "Requirement", pattern |-> "security"],
     [kind |-> "USES_TECHNIQUE", label |-> "Technique", key |-> "TECH_001",
      src |-> "Requirement", pattern |-> "classified"],
     [kind |-> "FOLLOWS", label |-> "Instruction", key |-> "INST_002",
      src |-> "Technique", pattern |-> "any"],
     [kind |-> "SUPPORTED_BY", label |-> "Instruction", key |-> "INST_001",
      src |-> "Requirement", pattern |-> "any"],
     [kind |-> "SUPPORTED_BY", label |-> "Instruction", key |-> "INST_004",
      src |-> "Requirement", pattern |-> "any"]}

\* the nodes of g that carry the identifier of t
TargetsOf(g, t) == {n \in NodesOf(g, t.label) : n.key = t.key}

\* the edges of t's kind from node `src` to the nodes that carry t's identifier
EdgesToTarget(g, src, t) ==
    SumCopies(g.edges, {k \in DOMAIN g.edges :
                           /\ k.kind = t.kind /\ k.src = src
                           /\ k.dst \in {n.nid : n \in TargetsOf(g, t)}})

\* C12: whatever calls came before (populate_complete_graph a second time
\* without a reset included), one application of the statements of
\* create_smart_relationships finds at most one node for each fixed target
\* identifier and adds, for each of them, exactly one edge from every matching
\* source and never more than one edge from the same source.
C12_OneEdgePerSourceToFixedTarget ==
    InferenceDone =>
        \A t \in FixedTargets :
            /\ Cardinality(TargetsOf(GraphAtInference, t)) <= 1
            /\ \A n \in GraphAtInference.nodes :
                  LET added == EdgesToTarget(store[SessionDb(None)], n.nid, t)
                                  - EdgesToTarget(GraphAtInference, n.nid, t)
                  IN /\ added <= 1
                     /\ t.pattern # "classified" =>
                           added = IF /\ n.label = t.src
                                      /\ WhereText(t.pattern, n.text)
                                      /\ TargetsOf(GraphAtInference, t) # {}
                                   THEN 1 ELSE 0

\* the statement of C12 for graphs in which no identifier is carried by two
\* nodes and no requirement is classified yet: there it holds
C12_OnGraphsWithoutDuplicates ==
    (/\ InferenceDone
     /\ \A n1, n2 \in GraphAtInference.nodes :
           (n1.label = n2.label /\ n1.key = n2.key) => n1 = n2
     /\ EdgeCount(GraphAtInference, "IS_A") = 0) =>
        C12_OneEdgePerSourceToFixedTarget

\* populate_complete_graph has run twice in a row with no reset in between
C12_SecondPopulationCase ==
    /\ InferenceDone
    /\ lastOp.name = "populate_complete_graph"
    /\ \E t \in FixedTargets : Cardinality(TargetsOf(GraphAtInference, t)) = 2

\* the nodes the i-th statement of create_smart_relationships names by identifier
RuleEndpoints ==
    << {[label |-> "Concept", prop |-> "concept_id", key |-> "CONC_001"]},
       {[label |-> "Concept", prop |-> "concept_id", key |-> "CONC_002"]},
       {[label |-> "Technique", prop |-> "tech_id", key |-> "TECH_005"]},
       {[label |-> "Concept", prop |-> "concept_id", key |-> "CONC_001"],
        [label |-> "Technique", prop |-> "tech_id", key |-> "TECH_001"]},
       {[label |-> "Instruction", prop |-> "instr_id", key |-> "INST_002"],
        [label |-> "Concept", prop |-> "concept_id", key |-> "CONC_005"]},
       {[label |-> "Instruction", prop |-> "instr_id", key |-> "INST_003"],
        [label |-> "Concept", prop |-> "concept_id", key |-> "CONC_004"]},
       {[label |-> "Instruction", prop |-> "instr_id", key |-> "INST_002"]},
       {[label |-> "Instruction", prop |-> "instr_id", key |-> "INST_001"]},
       {[label |-> "Instruction", prop |-> "instr_id", key |-> "INST_004"]} >>

\* the nodes the n-th statement of the method names by identifier
EndpointsOf(method, n) ==
    IF method = "create_smart_relationships" THEN RuleEndpoints[RuleTable[n]]
    ELSE {[label |-> SampleTable[n].src, prop |-> SampleTable[n].srcProp,
           key |-> SampleTable[n].srcKey],
          [label |-> SampleTable[n].dst, prop |-> SampleTable[n].dstProp,
           key |-> SampleTable[n].dstKey]}

StatementsOf(method) ==
    IF method = "create_smart_relationships" THEN Len(RuleTable) ELSE Len(SampleTable)

\* every node the statement names is found in g
Resolved(g, method, n) ==
    \A e \in EndpointsOf(method, n) : MatchNodes(g, e.label, e.prop, e.key) # {}

\* C13: the number create_smart_relationships and create_relationships_sample
\* report counts only statements that were applied: a statement that names a
\* node which was never created adds no edge and is not counted as a created
\* relationship; the method raises nothing.
C13_CountsOnlyAppliedAttempts ==
    lastOp.name \in {"create_smart_relationships", "create_relationships_sample"} =>
        /\ err = "none"
        /\ \A n \in 1..relationships_created :
              Resolved(before[SessionDb(None)], lastOp.name, n)
        /\ (\A n \in 1..StatementsOf(lastOp.name) :
               ~Resolved(before[SessionDb(None)], lastOp.name, n)) =>
              /\ store = before
              /\ relationships_created = 0

\* what the number does count: the statements the store ran without raising,
\* whether or not they matched anything; and a statement that names a missing
\* node adds no edge
C13_CountsStatementsRun ==
    lastOp.name \in {"create_smart_relationships", "create_relationships_sample"} =>
        /\ err = "none"
        /\ relationships_created \in
              {Len(rulesAttempted), Len(rulesAttempted) - 1}
        /\ faults = 0 /\ driver # "none" =>
              relationships_created = StatementsOf(lastOp.name)
        /\ (\A n \in 1..StatementsOf(lastOp.name) :
               ~Resolved(before[SessionDb(None)], lastOp.name, n)) => store = before

\* whatever create_smart_relationships met, main() goes on to its report
C13_RunReachesReport ==
    (pc = "Closed" /\ Invoked("create_smart_relationships")) => Invoked("report")

\* the Requirement nodes of the configured database made from row i of the file
NodesOfRow(i) == {n \in NodesOf(Graph, "Requirement") : n.key = ReqId(i)}

\* C14: after a complete run of main() on a file with the row "O sistema deve
\* permitir login" and no vector column, the graph holds exactly one
\* Requirement node for that row, with that text, the empty sequence as
\* embedding and text-embedding-3-small as embedding_model, and the node has
\* an IS_A edge to the concept CONC_001, "Requisito Funcional".
C14_LoginRowIsClassifiedFunctional ==
    RunComplete =>
        \A i \in DOMAIN csv.rows :
            (csv.rows[i].user_story = LoginStory /\ csv.rows[i].embedding = <<>>) =>
                /\ Cardinality(NodesOfRow(i)) = 1
                /\ \A n \in NodesOfRow(i) :
                      /\ n.text = LoginStory
                      /\ n.embedding = <<>>
                      /\ n.embedding_model = "text-embedding-3-small"
                      /\ \E c \in NodesOf(Graph, "Concept") :
                            /\ c.key = "CONC_001"
                            /\ c.text = <<"Requisito", "Funcional">>
                            /\ Copies(Graph.edges,
                                      [kind |-> "IS_A", src |-> n.nid, dst |-> c.nid]) > 0

\* the statement of C14 when NEO4J_DATABASE is not set
C14_WhenNoDatabaseIsNamed ==
    database = None => C14_LoginRowIsClassifiedFunctional

\* a complete run on a file with the login row and no vector column
C14_LoginCase ==
    /\ RunComplete
    /\ database = None
    /\ \E i \in DOMAIN csv.rows : csv.rows[i].user_story = LoginStory
    /\ \A i \in DOMAIN csv.rows : csv.rows[i].embedding = <<>>

\* the node itself is as C14 says under every configuration; only the edge is missing
C14_LoginNodeCreated ==
    RunComplete =>
        \A i \in DOMAIN csv.rows :
            (csv.rows[i].user_story = LoginStory /\ csv.rows[i].embedding = <<>>) =>
                /\ Cardinality(NodesOfRow(i)) = 1
                /\ \A n \in NodesOfRow(i) :
                      /\ n.text = LoginStory
                      /\ n.embedding = <<>>
                      /\ n.embedding_model = DefaultEmbeddingModel

\* the kinds of node each kind of edge goes from and to, as the CREATE
\* patterns of the class have them
DeclaredEndpoints ==
    [USES_TECHNIQUE |-> {<<"Requirement", "Technique">>},
     REFERS_TO |-> {<<"Instruction", "Concept">>},
     IS_RELATED_TO |-> {<<"Requirement", "Concept">>},
     IS_A |-> {<<"Requirement", "Concept">>},
     APPLIES_TO |-> {<<"Technique", "Concept">>, <<"Instruction", "Concept">>},
     SUGGESTS_TECHNIQUE |-> {<<"Instruction", "Technique">>},
     SUPPORTED_BY |-> {<<"Requirement", "Instruction">>},
     ELICITED_BY |-> {<<"Requirement", "Technique">>},
     FOLLOWS |-> {<<"Technique", "Instruction">>}]

\* every edge of g joins two nodes of g, of the kinds declared for the edge
WellFormed(g) ==
    \A k \in DOMAIN g.edges :
        /\ g.edges[k] > 0
        /\ k.kind \in EdgeKinds
        /\ k.src \in NodeIds(g)
        /\ k.dst \in NodeIds(g)
        /\ <<NodeById(g, k.src).label, NodeById(g, k.dst).label>> \in DeclaredEndpoints[k.kind]

\* C15: in every state a client can reach by entity creations, explicit
\* relationship creations, population, inference and resets, and in every
\* database of the server, both ends of every edge are nodes of the graph and
\* the edge joins the kinds of node declared for its kind.
C15_ReferentialIntegrity == \A d \in Databases : WellFormed(store[d])

\* C15 witness: a reset was served on a graph that held edges, while another
\* database of the server still holds nodes and edges
C15_Witness ==
    /\ lastOp.name = "clear_database"
    /\ Serviced
    /\ TotalEdges(before[SessionDb(database)]) > 0
    /\ Graph.nodes = {}
    /\ \E d \in Databases : TotalEdges(store[d]) > TotalEdges(EmptyGraph)

\* vectors a node may carry in place of its own
OtherEmbeddings == {<<>>, <<2>>, <<1, 2>>}

\* g with the embedding of every node replaced by e: the same nodes with the
\* same identifiers and texts, and the same edges
WithEmbeddings(g, e) ==
    [nodes |-> {[n EXCEPT !.embedding = e] : n \in g.nodes}, edges |-> g.edges]

\* the edges of g by kind and by the identifiers of their ends
EdgesByIdentifier(g) ==
    {[kind |-> k.kind, src |-> NodeById(g, k.src).key, dst |-> NodeById(g, k.dst).key] :
        k \in DOMAIN g.edges}

\* create_smart_relationships was called and ran every statement
SmartRelationshipsDone ==
    /\ lastOp.name = "create_smart_relationships"
    /\ relationships_created = Len(RuleTable)
    /\ rulesAttempted = RuleTable

Extends(h, g) ==
    /\ g.nodes \subseteq h.nodes
    /\ \A k \in DOMAIN g.edges : Copies(h.edges, k) >= g.edges[k]

\* C17: a call of any method other than clear_database, whether it succeeds
\* or raises, leaves every node that was in a database of the server in it,
\* with its identifier and every other property unchanged, and leaves every
\* edge; clear_database is the only call after which a node or an edge is gone,
\* and it takes them from the configured database alone.
C17_OnlyTheResetRemoves ==
    /\ lastOp.name # "clear_database" =>
          \A d \in Databases : Extends(store[d], before[d])
    /\ lastOp.name = "clear_database" => OtherDatabasesUntouched

\* C17 witness: populate_complete_graph ran to its end on a database that
\* already held nodes and edges, and added nodes and edges to them
C17_Witness ==
    /\ lastOp.name = "populate_complete_graph"
    /\ InferenceDone
    /\ before[SessionDb(database)].nodes # {}
    /\ TotalEdges(before[SessionDb(None)]) > 0
    /\ Cardinality(Graph.nodes) > Cardinality(before[SessionDb(database)].nodes)
    /\ TotalEdges(store[SessionDb(None)]) > TotalEdges(before[SessionDb(None)])

\* the graph a complete run on the file builds when every stage works on one
\* and the same database, starting from its reset
PopulatedGraph ==
    RunRules(CreateStaticNodes(PopulateFromCsv(EmptyGraph, csv, {}), Len(StaticNodes)),
             RuleTable, Len(RuleTable))

\* C18: whatever NEO4J_DATABASE names, the statements of
\* create_smart_relationships run in the database that clear_database reset
\* and the create_ methods filled: a run of main() changes no other database
\* of the server, and after a complete run the configured database holds the
\* edges the rules give on the nodes created in this run.
C18_RulesRunInConfiguredDatabase ==
    /\ \A d \in Databases \ {SessionDb(database)} : store[d] = before[d]
    /\ RunComplete => Graph = PopulatedGraph

\* the statement of C18 when NEO4J_DATABASE is not set, so that the session
\* without a database and the sessions with database=None open the same one
C18_WhenNoDatabaseIsNamed ==
    database = None => C18_RulesRunInConfiguredDatabase

\* the same for a client's calls of create_smart_relationships and
\* create_relationships_sample: they change the configured database only
C18_RelationshipCallsInConfiguredDatabase ==
    lastOp.name \in {"create_smart_relationships", "create_relationships_sample"} =>
        OtherDatabasesUntouched

====
